---- MODULE Spec2Model ----
(***************************************************************************)
(* Point-in-time bar series (lumibot.entities.Data) and the ThetaData      *)
(* backtesting lookback cache (ThetaDataBacktesting).                      *)
(*                                                                         *)
(* Timestamps are whole minutes since midnight of day 0 of the default     *)
(* timezone: ts = day * MinutesPerDay + minute-of-day.                     *)
(***************************************************************************)
EXTENDS Integers, Sequences, FiniteSets, TLC

VARIABLES
    raw_df,       \* Data.__init__ argument df: its index, a sequence of timestamps
    arg_start,    \* Data.__init__ argument date_start (a Python value)
    arg_end,      \* Data.__init__ argument date_end (a Python value)
    data,         \* the Data object: construction status, df index, bounds
    bars,         \* the last query made on the Data object and its outcome
    pandas_data,  \* ThetaDataBacktesting.pandas_data: (asset, quote) -> entry
    now,          \* the simulated time, self.get_datetime()
    call,         \* the last request made of ThetaDataBacktesting, its outcome
    barset        \* an activation of AlpacaData.get_barset_from_api

dataVars == <<raw_df, arg_start, arg_end, data, bars>>
cacheVars == <<pandas_data, now, call>>
alpacaVars == <<barset>>
vars == <<raw_df, arg_start, arg_end, data, bars, cacheVars, alpacaVars>>

----------------------------------------------------------------------------
(* Bounds of the model *)

MaxRows == 3        \* longest input index
MaxDataDay == 1     \* input timestamps lie on days 0..MaxDataDay
MaxLength == 3      \* largest length asked of get_bars
MaxTimeshift == 4   \* largest timeshift asked of get_bars
MaxTicks == 1       \* days of simulated time a backtest runs over
FrameRows == 2      \* a provider frame is kept to its first FrameRows bars
MaxLimit == 2       \* largest small limit asked of get_barset_from_api
MaxApiRows == 2     \* longest frame the Alpaca API answers with

----------------------------------------------------------------------------
(* Time *)

MinutesPerHour == 60
MinutesPerDay == 24 * MinutesPerHour

\* datetime.time(): the time-of-day component of a timestamp
TimeOfDay(ts) == ts % MinutesPerDay

\* the session open and close minutes used for input bars (09:30, 16:00)
DataTods == {9 * MinutesPerHour + 30, 16 * MinutesPerHour}

DataTimes == {d * MinutesPerDay + m : d \in 0..MaxDataDay, m \in DataTods}

----------------------------------------------------------------------------
(* Python values passed as date_start / date_end.                          *)
(*   kind "none"     : None                                                *)
(*   kind "datetime" : datetime.datetime, v its timestamp                  *)
(*   kind "date"     : datetime.date (not a datetime.datetime), v its day  *)
(*   kind "str"      : a string of v characters                            *)

None == [kind |-> "none", v |-> 0]
Datetime(ts) == [kind |-> "datetime", v |-> ts]

\* bool(x) as Python evaluates it in `if dt` / `if not date_start`
Truthy(x) ==
    CASE x.kind = "none" -> FALSE
      [] x.kind = "str" -> x.v # 0
      [] OTHER -> TRUE

\* isinstance(x, datetime.datetime)
IsDatetime(x) == x.kind = "datetime"

DateArgs ==
    {None} \cup {Datetime(t) : t \in DataTimes}
           \cup {[kind |-> "date", v |-> 0]}
           \cup {[kind |-> "str", v |-> n] : n \in {0, 10}}

----------------------------------------------------------------------------
(* Sequences *)

\* the strictly increasing sequences over S of length at most n
IncreasingSeqs(S, n) ==
    UNION {{q \in [1..k -> S] : \A i \in 1..(k - 1) : q[i] < q[i + 1]} :
           k \in 0..n}

\* Python's seq[start:stop]: a negative bound counts from the end, every
\* bound is clipped to [0, len]; the result lists the 0-based offsets kept
SliceBound(i, n) ==
    IF i < 0 THEN (IF i + n < 0 THEN 0 ELSE i + n)
    ELSE (IF i > n THEN n ELSE i)

PySlice(n, start, stop) ==
    LET lo == SliceBound(start, n)
        hi == SliceBound(stop, n)
    IN [k \in 1..(IF hi > lo THEN hi - lo ELSE 0) |-> lo + k - 1]

----------------------------------------------------------------------------
(* Data: construction *)

\* to_datetime_aware: attaches the default timezone; the instant is kept
to_datetime_aware(ts) == ts

\* Data.set_date_format: pd.to_datetime and tz_localize of the index to the
\* default timezone; every instant is kept, in order
set_date_format(df) == [i \in 1..Len(df) |-> to_datetime_aware(df[i])]

\* Data.set_dates: err is "TypeError" for a truthy bound that is no datetime,
\* "IndexError" when a default is taken from an empty index, else "none"
set_dates(df, date_start, date_end) ==
    IF \E dt \in {date_start, date_end} : Truthy(dt) /\ ~IsDatetime(dt)
    THEN [err |-> "TypeError", date_start |-> 0, date_end |-> 0]
    ELSE IF (~Truthy(date_start) \/ ~Truthy(date_end)) /\ Len(df) = 0
    THEN [err |-> "IndexError", date_start |-> 0, date_end |-> 0]
    ELSE [err |-> "none",
          date_start |-> to_datetime_aware(
              IF ~Truthy(date_start) THEN df[1] ELSE date_start.v),
          date_end |-> to_datetime_aware(
              IF ~Truthy(date_end) THEN df[Len(df)] ELSE date_end.v)]

\* DataFrame.between_time, were the end time left out of the range
between_time_open_end(tod, start_time, end_time) ==
    IF start_time <= end_time
    THEN start_time <= tod /\ tod < end_time
    ELSE start_time <= tod \/ tod < end_time

\* DataFrame.between_time(start_time, end_time), both ends included; when
\* start_time is later than end_time the range runs over midnight
between_time(tod, start_time, end_time) ==
    IF start_time <= end_time
    THEN start_time <= tod /\ tod <= end_time
    ELSE start_time <= tod \/ tod <= end_time

\* Data.trim_data, were the start label left out of the slice
InTrimEndOnly(ts, start, end) ==
    /\ ts <= end
    /\ between_time(TimeOfDay(ts), TimeOfDay(start), TimeOfDay(end))

\* Data.trim_data: df.loc[start:end] on the ordered index (both labels
\* included), then between_time(start.time(), end.time())
InTrim(ts, start, end) ==
    /\ start <= ts
    /\ ts <= end
    /\ between_time(TimeOfDay(ts), TimeOfDay(start), TimeOfDay(end))

trim_data(df, start, end) ==
    LET Keep(ts) == InTrim(ts, start, end)
    IN SelectSeq(df, Keep)

NoData == [status |-> "new", df |-> << >>, date_start |-> 0, date_end |-> 0]

\* Data.__init__
NewData(df, date_start, date_end) ==
    LET formatted == set_date_format(df)
        dates == set_dates(formatted, date_start, date_end)
    IN IF dates.err # "none"
       THEN [NoData EXCEPT !.status = dates.err]
       ELSE [status |-> "ok",
             df |-> trim_data(formatted, dates.date_start, dates.date_end),
             date_start |-> dates.date_start,
             date_end |-> dates.date_end]

----------------------------------------------------------------------------
(* Data: queries *)

\* Data.get_iter_count: iter_index[dt], the 0-based row offset of dt, or -1
\* where the lookup raises KeyError
HasRow(df, dt) == \E i \in 1..Len(df) : df[i] = dt

\* iter_index[dt], were the lookup to fall back to the nearest earlier row
get_iter_count_pad(df, dt) ==
    Cardinality({i \in 1..Len(df) : df[i] <= dt}) - 1

get_iter_count(df, dt) ==
    IF HasRow(df, dt) THEN (CHOOSE i \in 1..Len(df) : df[i] = dt) - 1 ELSE -1

\* Data.get_bars: end_row and start_row
EndRowLookahead(iter_count, timeshift) == iter_count + 2 - timeshift

EndRow(iter_count, timeshift) == iter_count + 1 - timeshift

StartRowUnclamped(end_row, length) == end_row - length

StartRow(end_row, length) ==
    IF end_row - length < 0 THEN 0 ELSE end_row - length

\* Data.get_bars: the row offsets of dataline[start_row:end_row]
get_bars(df, dt, length, timeshift) ==
    IF get_iter_count(df, dt) = -1
    THEN [raised |-> "KeyError", rows |-> << >>]
    ELSE LET end_row == EndRow(get_iter_count(df, dt), timeshift)
             start_row == StartRow(end_row, length)
         IN [raised |-> "none", rows |-> PySlice(Len(df), start_row, end_row)]

\* Data.get_last_price: the row whose close is returned
get_last_price_row(df, dt) ==
    IF get_iter_count(df, dt) = -1
    THEN [raised |-> "KeyError", rows |-> << >>]
    ELSE [raised |-> "none", rows |-> <<get_iter_count(df, dt)>>]

NoQuery ==
    [op |-> "none", dt |-> 0, length |-> 0, timeshift |-> 0,
     raised |-> "none", rows |-> << >>]

----------------------------------------------------------------------------
(* ThetaDataBacktesting: the lookback cache *)

\* START_BUFFER = timedelta(days=5)
START_BUFFER == 5 * MinutesPerDay

Timesteps == {"minute", "hour", "day"}

\* the duration of one bar of a timestep unit
Duration(ts_unit) ==
    CASE ts_unit = "minute" -> 1
      [] ts_unit = "hour" -> MinutesPerHour
      [] ts_unit = "day" -> MinutesPerDay

Assets == {"SPY"}
Quotes == {"USD", "EUR"}
Keys == Assets \X Quotes

\* the asset argument at a call site: an asset, or an (asset, quote) tuple
PlainAsset(a) == [tuple |-> FALSE, asset |-> a, quote |-> "None"]
TupleAsset(a, q) == [tuple |-> TRUE, asset |-> a, quote |-> q]

\* the call sites of the model: the (asset, quote, timestep) arguments of a
\* request.  quote is an asset or "None".  The USD pair is asked for at every
\* timestep and in every form, the EUR pair for day bars.
Requests ==
    {[asset |-> site[1], quote |-> site[2], timestep |-> ts] :
        site \in {<<PlainAsset("SPY"), "None">>, <<PlainAsset("SPY"), "USD">>,
                  <<TupleAsset("SPY", "USD"), "None">>},
        ts \in Timesteps}
    \cup
    {[asset |-> site[1], quote |-> site[2], timestep |-> "day"] :
        site \in {<<PlainAsset("SPY"), "EUR">>,
                  <<TupleAsset("SPY", "EUR"), "None">>}}

\* update_pandas_data: search_asset, were the tuple left unpacked
SearchAssetQuoteArgOnly(asset, quote) ==
    <<asset.asset, IF quote # "None" THEN quote ELSE "USD">>

\* update_pandas_data: search_asset, the key looked up in pandas_data
SearchAsset(asset, quote) ==
    LET quote_asset == IF quote # "None" THEN quote ELSE "USD"
    IN IF asset.tuple THEN <<asset.asset, asset.quote>>
       ELSE <<asset.asset, quote_asset>>

\* the backtest runs from datetime_start to datetime_end
datetime_start == 20 * MinutesPerDay
datetime_end == datetime_start + MaxTicks * MinutesPerDay

NoStartDt == -1

\* PandasData.get_start_datetime_and_ts_unit: the reference time (start_dt
\* when one is given) less length bars, less the buffer
get_start_datetime_and_ts_unit(length, timestep, start_dt, start_buffer, t) ==
    [start_datetime |->
         (IF start_dt # NoStartDt THEN start_dt
          ELSE t - length * Duration(timestep)) - start_buffer,
     ts_unit |-> timestep]

\* a cache entry: the Data object held for a key, read through
\* asset_data.timestep (the timestep keyword it was built with) and
\* asset_data.df (its index, as Data.__init__ leaves it)
Absent == [present |-> FALSE, timestep |-> "none", df |-> << >>]

\* the sufficiency test, were it to accept only an entry that starts within
\* the buffer after the start asked for
EnoughWindow(entry, start_datetime) ==
    /\ 0 <= entry.df[1] - start_datetime
    /\ entry.df[1] - start_datetime < START_BUFFER

\* the sufficiency test, were it to accept a distance of exactly the buffer
EnoughLoose(entry, start_datetime) ==
    entry.df[1] - start_datetime <= START_BUFFER

\* (data_start_datetime - start_datetime) < START_BUFFER
Enough(entry, start_datetime) ==
    entry.df[1] - start_datetime < START_BUFFER

\* update_pandas_data, the unit fetched when a coarser request finds finer
\* data that does not reach back far enough
FetchUnitRequested(requested, data_timestep) == requested

FetchUnit(requested, data_timestep) == data_timestep

\* the policy, were finer data never to serve or replace a coarser request
SufficiencyNoResample(entry, requested, start_datetime) ==
    IF entry.present /\ entry.timestep = requested
       /\ Enough(entry, start_datetime)
    THEN [skip |-> TRUE, ts_unit |-> requested]
    ELSE [skip |-> FALSE, ts_unit |-> requested]

\* the policy, were the reach of the entry to decide whatever its timestep
SufficiencyByReach(entry, requested, start_datetime) ==
    IF entry.present /\ Enough(entry, start_datetime)
    THEN [skip |-> TRUE, ts_unit |-> requested]
    ELSE [skip |-> FALSE, ts_unit |-> requested]

\* update_pandas_data up to the download: whether it returns None without
\* fetching (skip), and the ts_unit it fetches at otherwise
Sufficiency(entry, requested, start_datetime) ==
    LET data_timestep == entry.timestep
        enough == Enough(entry, start_datetime)
        \* if ts_unit == "day"
        unit1 == IF requested = "day" /\ data_timestep \in {"minute", "hour"}
                 THEN FetchUnit(requested, data_timestep) ELSE requested
        skip1 == requested = "day" /\ data_timestep \in {"minute", "hour"} /\ enough
        \* if ts_unit == "hour"
        unit2 == IF unit1 = "hour" /\ data_timestep = "minute"
                 THEN FetchUnit(unit1, data_timestep) ELSE unit1
        skip2 == unit1 = "hour" /\ data_timestep = "minute" /\ enough
    IN IF ~entry.present THEN [skip |-> FALSE, ts_unit |-> requested]
       ELSE IF data_timestep = requested /\ enough
       THEN [skip |-> TRUE, ts_unit |-> requested]
       ELSE IF skip1 THEN [skip |-> TRUE, ts_unit |-> requested]
       ELSE IF skip2 THEN [skip |-> TRUE, ts_unit |-> unit1]
       ELSE [skip |-> FALSE, ts_unit |-> unit2]

\* the arguments of thetadata_helper.get_price_data
NoFetch == [start |-> 0, end |-> 0, timespan |-> "none"]

FetchToNow(start_datetime, ts_unit, t) ==
    [start |-> start_datetime, end |-> t, timespan |-> ts_unit]

FetchRequest(start_datetime, ts_unit, t) ==
    [start |-> start_datetime, end |-> datetime_end, timespan |-> ts_unit]

\* what the provider answers to a fetch: a frame of bars ("data"), a frame
\* without rows ("empty"), None, or a raised error.  The first bar of a
\* frame lies gap after the start asked for.
Gaps == {0, START_BUFFER}

NoResponse == [kind |-> "unasked", frame |-> << >>]

Frame(fetch, gap) ==
    [k \in 1..FrameRows |->
        fetch.start + gap + (k - 1) * Duration(fetch.timespan)]

Responses(fetch) ==
    {[kind |-> "data", frame |-> Frame(fetch, gap)] : gap \in Gaps}
    \cup {[kind |-> k, frame |-> << >>] : k \in {"empty", "None", "error"}}

\* update_pandas_data after the download, were a replaced entry to keep the
\* timestep of the entry it replaces
AfterFetchKeepTimestep(old, response, ts_unit) ==
    IF response.kind = "error"
    THEN [raised |-> "Exception", cause |-> "ProviderError",
          returned |-> "None", entry |-> Absent]
    ELSE IF response.kind = "None"
    THEN [raised |-> "none", cause |-> "none", returned |-> "None",
          entry |-> Absent]
    ELSE LET built == NewData(response.frame, None, None)
         IN IF built.status # "ok"
            THEN [raised |-> built.status, cause |-> "none",
                  returned |-> "None", entry |-> Absent]
            ELSE [raised |-> "none", cause |-> "none", returned |-> "update",
                  entry |-> [present |-> TRUE,
                             timestep |-> IF old.present THEN old.timestep
                                          ELSE ts_unit,
                             df |-> built.df]]

\* update_pandas_data after the download.  returned is "None" or "update";
\* entry is the value of the one key of the returned dictionary, built by
\* Data(asset_separated, df, timestep=ts_unit, quote=quote_asset): no date
\* bounds are given, so set_dates takes them from the frame and raises
\* IndexError on a frame without rows.
AfterFetchKeepRows(old, response, ts_unit) ==
    IF response.kind = "error"
    THEN [raised |-> "Exception", cause |-> "ProviderError",
          returned |-> "None", entry |-> Absent]
    ELSE IF response.kind = "None"
    THEN [raised |-> "none", cause |-> "none", returned |-> "None",
          entry |-> Absent]
    ELSE LET built == NewData(response.frame, None, None)
         IN IF built.status # "ok"
            THEN [raised |-> built.status, cause |-> "none",
                  returned |-> "None", entry |-> Absent]
            ELSE [raised |-> "none", cause |-> "none", returned |-> "update",
                  entry |-> [present |-> TRUE, timestep |-> ts_unit,
                             df |-> old.df \o built.df]]

AfterFetchDropOnNone(old, response, ts_unit) ==
    IF response.kind = "error"
    THEN [raised |-> "Exception", cause |-> "ProviderError",
          returned |-> "None", entry |-> Absent]
    ELSE IF response.kind = "None"
    THEN [raised |-> "none", cause |-> "none", returned |-> "update",
          entry |-> Absent]
    ELSE LET built == NewData(response.frame, None, None)
         IN IF built.status # "ok"
            THEN [raised |-> built.status, cause |-> "none",
                  returned |-> "None", entry |-> Absent]
            ELSE [raised |-> "none", cause |-> "none", returned |-> "update",
                  entry |-> [present |-> TRUE, timestep |-> ts_unit,
                             df |-> built.df]]

AfterFetch(old, response, ts_unit) ==
    IF response.kind = "error"
    THEN [raised |-> "Exception", cause |-> "ProviderError",
          returned |-> "None", entry |-> Absent]
    ELSE IF response.kind = "None"
    THEN [raised |-> "none", cause |-> "none", returned |-> "None",
          entry |-> Absent]
    ELSE LET built == NewData(response.frame, None, None)
         IN IF built.status # "ok"
            THEN [raised |-> built.status, cause |-> "none",
                  returned |-> "None", entry |-> Absent]
            ELSE [raised |-> "none", cause |-> "none", returned |-> "update",
                  entry |-> [present |-> TRUE, timestep |-> ts_unit,
                             df |-> built.df]]

\* PandasData._set_pandas_data_keys: the key a Data object is filed under
set_pandas_data_keys(asset_separated, quote_asset) ==
    <<asset_separated, quote_asset>>

\* update_pandas_data(asset, quote, length, timestep, start_dt) at simulated
\* time t, the provider answering with response if it is asked
update_pandas_data(cache, asset, quote, length, timestep, start_dt, t, response) ==
    LET search_asset == SearchAsset(asset, quote)
        sd == get_start_datetime_and_ts_unit(
                  length, timestep, start_dt, START_BUFFER, t)
        suff == Sufficiency(cache[search_asset], sd.ts_unit, sd.start_datetime)
        after == AfterFetch(cache[search_asset], response, suff.ts_unit)
    IN IF suff.skip
       THEN [key |-> search_asset, fetched |-> FALSE, fetch |-> NoFetch,
             raised |-> "none", cause |-> "none", returned |-> "None",
             update_key |-> search_asset, entry |-> Absent]
       ELSE [key |-> search_asset, fetched |-> TRUE,
             fetch |-> FetchRequest(sd.start_datetime, suff.ts_unit, t),
             raised |-> after.raised, cause |-> after.cause,
             returned |-> after.returned,
             update_key |-> set_pandas_data_keys(search_asset[1], search_asset[2]),
             entry |-> after.entry]

\* the responses the provider can give to the fetch of a request, if any
ResponsesTo(cache, asset, quote, length, timestep, start_dt, t) ==
    LET u == update_pandas_data(cache, asset, quote, length, timestep,
                                start_dt, t, NoResponse)
    IN IF u.fetched THEN Responses(u.fetch) ELSE {NoResponse}

\* self.pandas_data.update(pandas_data_update) when the update is not None
ApplyUpdate(cache, u) ==
    IF u.raised = "none" /\ u.returned = "update"
    THEN [cache EXCEPT ![u.update_key] = u.entry]
    ELSE cache

\* _pull_source_symbol_bars: an error of update_pandas_data goes to the
\* caller; otherwise PandasData._pull_source_symbol_bars answers from the
\* entry of the key, or with None when there is none
PullSwallow(cache, u) ==
    [raised |-> "none", cause |-> "none", super_called |-> TRUE,
     result |-> IF cache[u.key].present THEN "bars" ELSE "None"]

PullOutcome(cache, u) ==
    IF u.raised # "none"
    THEN [raised |-> u.raised, cause |-> u.cause, super_called |-> FALSE,
          result |-> "none"]
    ELSE [raised |-> "none", cause |-> "none", super_called |-> TRUE,
          result |-> IF cache[u.key].present THEN "bars" ELSE "None"]

\* get_last_price: an error of the refresh is caught and logged, and
\* PandasData.get_last_price is called in every case
LastPricePropagate(cache, u) ==
    IF u.raised # "none"
    THEN [raised |-> u.raised, cause |-> u.cause, super_called |-> FALSE,
          result |-> "none"]
    ELSE [raised |-> "none", cause |-> "none", super_called |-> TRUE,
          result |-> "price"]

LastPriceOutcome(cache, u) ==
    [raised |-> "none", cause |-> "none", super_called |-> TRUE,
     result |-> "price"]

\* the finest resolution asked of a key so far by bar requests whose
\* fetches all returned data: "none" before the first request, "void" once
\* the key saw another request or a fetch that returned no data
FinerOf(ts1, ts2) ==
    IF ts1 = "none" THEN ts2
    ELSE IF Duration(ts1) <= Duration(ts2) THEN ts1 ELSE ts2

Track(finest, op, timestep, fetched, kind) ==
    IF finest = "void" \/ op # "get_bars" \/ (fetched /\ kind # "data")
    THEN "void"
    ELSE FinerOf(finest, timestep)

NoCall ==
    [op |-> "none", key |-> <<"SPY", "USD">>, length |-> 0,
     timestep |-> "none", at |-> 0, had_entry |-> FALSE,
     fetched |-> FALSE, fetch |-> NoFetch, response |-> NoResponse,
     refresh_error |-> "none", raised |-> "none", cause |-> "none",
     super_called |-> FALSE, result |-> "none",
     same_as_prev |-> FALSE, prev_fetched |-> FALSE,
     finest |-> [k \in Keys |-> "none"]]

\* the record of a request: what was asked, what update_pandas_data did (u),
\* what the provider answered and what the caller got (out)
CallRecord(op, length, timestep, u, response, out) ==
    [op |-> op, key |-> u.key, length |-> length, timestep |-> timestep,
     at |-> now, had_entry |-> pandas_data[u.key].present,
     fetched |-> u.fetched, fetch |-> u.fetch,
     response |-> IF u.fetched THEN response ELSE NoResponse,
     refresh_error |-> u.raised,
     raised |-> out.raised, cause |-> out.cause,
     super_called |-> out.super_called, result |-> out.result,
     same_as_prev |->
         /\ call.op = op /\ call.key = u.key /\ call.length = length
         /\ call.timestep = timestep /\ call.at = now
         /\ ((call.fetched /\ u.fetched) => call.response = response),
     prev_fetched |-> call.fetched,
     finest |-> [call.finest EXCEPT
                   ![u.key] = Track(@, op, timestep, u.fetched, response.kind)]]

\* the lengths asked of the cache
Lengths == {1}

\* get_last_price is called with its default timestep, "minute"
LastPriceRequests == {req \in Requests : req.timestep = "minute"}

----------------------------------------------------------------------------
(* AlpacaData.get_barset_from_api(api, asset, freq, limit), start not given *)

\* loop_limit = limit + 4896 on a Monday
MONDAY_EXTRA == 4896

\* while loop_limit / limit <= 64
MAX_RATIO == 64

Freqs == {"1Min", "1Day"}

\* the limits asked for: small ones, and one of the size of the Monday extra
Limits == 1..MaxLimit \cup {MONDAY_EXTRA}

\* loop_limit before the loop, doubled: for "1Day" it is limit * 1.5, so the
\* model carries 2 * loop_limit to stay in the integers.  monday is
\* datetime.now().weekday() == 0
InitialLoopLimitX2(freq, monday, limit) ==
    IF freq = "1Min"
    THEN IF monday THEN 2 * (limit + MONDAY_EXTRA) ELSE 2 * limit
    ELSE 3 * limit

\* the loop test: loop_limit / limit <= 64 and len(df) < limit
LoopTest(loop_limit_x2, limit, len_df) ==
    /\ loop_limit_x2 <= 2 * MAX_RATIO * limit
    /\ len_df < limit

\* barset.df as the API answers: a row is a bar, a row with the index of an
\* earlier row, or a row with close <= 0.  The first row repeats no index.
RowKinds == {"bar", "duplicate", "nonpositive"}

ApiFrames ==
    UNION {{f \in [1..n -> RowKinds] : n >= 1 => f[1] # "duplicate"} :
           n \in 0..MaxApiRows}

\* df[~df.index.duplicated(keep="first")], df.iloc[-limit:], df[df.close > 0]
FilterFrame(frame, limit) ==
    LET NotDuplicate(row) == row # "duplicate"
        Positive(row) == row # "nonpositive"
        unique == SelectSeq(frame, NotDuplicate)
        kept == IF Len(unique) <= limit THEN unique
                ELSE SubSeq(unique, Len(unique) - limit + 1, Len(unique))
    IN SelectSeq(kept, Positive)

\* pc: "entry" before the call, "body" at the head of a loop iteration,
\* "exit" after the loop, "done" once returned or raised.  calls counts the
\* API calls, last_rows is the length of the frame the last one answered
\* with, len_df is len(df).
NoBarsetCall ==
    [pc |-> "idle", freq |-> "1Min", monday |-> FALSE, limit |-> 1,
     loop_limit_x2 |-> 0, len_df |-> 0, calls |-> 0, last_rows |-> 0,
     result |-> "none"]

----------------------------------------------------------------------------
(* The Data state machine.  The queries read the Data object and leave it  *)
(* as it is, so the answer to a query does not depend on the queries made  *)
(* before it: each behaviour constructs one object and makes one query.    *)

\* the input index is time-ordered and free of duplicates: Data neither
\* sorts nor deduplicates it
InitData ==
    /\ raw_df \in IncreasingSeqs(DataTimes, MaxRows)
    /\ arg_start \in DateArgs
    /\ arg_end \in DateArgs
    /\ data = NoData
    /\ bars = NoQuery
    /\ pandas_data = [k \in Keys |-> Absent]
    /\ now = datetime_start
    /\ call = NoCall
    /\ barset = NoBarsetCall

Construct ==
    /\ data.status = "new"
    /\ data' = NewData(raw_df, arg_start, arg_end)
    /\ UNCHANGED <<raw_df, arg_start, arg_end, bars, cacheVars, alpacaVars>>

GetIterCount ==
    /\ data.status = "ok"
    /\ bars.op = "none"
    /\ \E dt \in DataTimes :
         bars' = [NoQuery EXCEPT
                    !.op = "get_iter_count", !.dt = dt,
                    !.raised = IF get_iter_count(data.df, dt) = -1
                               THEN "KeyError" ELSE "none",
                    !.rows = IF get_iter_count(data.df, dt) = -1
                             THEN << >> ELSE <<get_iter_count(data.df, dt)>>]
    /\ UNCHANGED <<raw_df, arg_start, arg_end, data, cacheVars, alpacaVars>>

GetLastPriceAt ==
    /\ data.status = "ok"
    /\ bars.op = "none"
    /\ \E dt \in DataTimes :
         bars' = [NoQuery EXCEPT
                    !.op = "get_last_price", !.dt = dt,
                    !.raised = get_last_price_row(data.df, dt).raised,
                    !.rows = get_last_price_row(data.df, dt).rows]
    /\ UNCHANGED <<raw_df, arg_start, arg_end, data, cacheVars, alpacaVars>>

GetBars ==
    /\ data.status = "ok"
    /\ bars.op = "none"
    /\ \E dt \in DataTimes, length \in 0..MaxLength, timeshift \in 0..MaxTimeshift :
         bars' = [op |-> "get_bars", dt |-> dt, length |-> length,
                  timeshift |-> timeshift,
                  raised |-> get_bars(data.df, dt, length, timeshift).raised,
                  rows |-> get_bars(data.df, dt, length, timeshift).rows]
    /\ UNCHANGED <<raw_df, arg_start, arg_end, data, cacheVars, alpacaVars>>

NextData == Construct \/ GetIterCount \/ GetLastPriceAt \/ GetBars

SpecData == InitData /\ [][NextData]_vars

----------------------------------------------------------------------------
(* The cache state machine *)

Init ==
    /\ raw_df = << >>
    /\ arg_start = None
    /\ arg_end = None
    /\ data = NoData
    /\ bars = NoQuery
    /\ pandas_data = [k \in Keys |-> Absent]
    /\ now = datetime_start
    /\ call = NoCall
    /\ barset = NoBarsetCall

\* ThetaDataBacktesting._pull_source_symbol_bars(asset, length, timestep, quote=quote)
PullSourceSymbolBars ==
    \E req \in Requests, length \in Lengths :
      \E response \in ResponsesTo(pandas_data, req.asset, req.quote, length,
                                  req.timestep, NoStartDt, now) :
        LET u == update_pandas_data(pandas_data, req.asset, req.quote, length,
                                    req.timestep, NoStartDt, now, response)
            updated == ApplyUpdate(pandas_data, u)
        IN /\ pandas_data' = updated
           /\ call' = CallRecord("get_bars", length, req.timestep, u, response,
                                 PullOutcome(updated, u))
           /\ UNCHANGED <<now, dataVars, alpacaVars>>

\* ThetaDataBacktesting.get_last_price(asset, timestep, quote)
GetLastPrice ==
    \E req \in LastPriceRequests :
      \E response \in ResponsesTo(pandas_data, req.asset, req.quote, 1,
                                  req.timestep, now, now) :
        LET u == update_pandas_data(pandas_data, req.asset, req.quote, 1,
                                    req.timestep, now, now, response)
            updated == ApplyUpdate(pandas_data, u)
        IN /\ pandas_data' = updated
           /\ call' = CallRecord("get_last_price", 1, req.timestep, u, response,
                                 LastPriceOutcome(updated, u))
           /\ UNCHANGED <<now, dataVars, alpacaVars>>

\* the replay loop moves the simulated time on by a day
Tick ==
    /\ now < datetime_end
    /\ now' = now + MinutesPerDay
    /\ UNCHANGED <<pandas_data, call, dataVars, alpacaVars>>

Next == PullSourceSymbolBars \/ GetLastPrice \/ Tick

Spec == Init /\ [][Next]_vars

----------------------------------------------------------------------------
(* The get_barset_from_api state machine: one activation, from the call to *)
(* the return.  An action is a stretch of the function between two tests   *)
(* of the loop condition.                                                  *)

InitAlpaca ==
    /\ raw_df = << >>
    /\ arg_start = None
    /\ arg_end = None
    /\ data = NoData
    /\ bars = NoQuery
    /\ pandas_data = [k \in Keys |-> Absent]
    /\ now = datetime_start
    /\ call = NoCall
    /\ \E freq \in Freqs, monday \in BOOLEAN, limit \in Limits :
         barset = [NoBarsetCall EXCEPT !.pc = "entry", !.freq = freq,
                                       !.monday = monday, !.limit = limit]

\* from the call to the first test of the loop condition
BarsetEnter ==
    /\ barset.pc = "entry"
    /\ LET loop_limit_x2 ==
               InitialLoopLimitX2(barset.freq, barset.monday, barset.limit)
       IN barset' = [barset EXCEPT
                       !.loop_limit_x2 = loop_limit_x2,
                       !.len_df = 0,
                       !.pc = IF LoopTest(loop_limit_x2, barset.limit, 0)
                              THEN "body" ELSE "exit"]
    /\ UNCHANGED <<dataVars, cacheVars>>

\* one iteration: the API call, return None on an empty frame, else the
\* filters, loop_limit *= 2 and the next test of the loop condition
BarsetCallApi ==
    /\ barset.pc = "body"
    /\ \E frame \in ApiFrames :
         IF frame = << >>
         THEN barset' = [barset EXCEPT
                           !.calls = @ + 1, !.last_rows = 0,
                           !.pc = "done", !.result = "None"]
         ELSE LET len_df == Len(FilterFrame(frame, barset.limit))
                  loop_limit_x2 == 2 * barset.loop_limit_x2
              IN barset' = [barset EXCEPT
                              !.calls = @ + 1, !.last_rows = Len(frame),
                              !.len_df = len_df,
                              !.loop_limit_x2 = loop_limit_x2,
                              !.pc = IF LoopTest(loop_limit_x2, barset.limit, len_df)
                                     THEN "body" ELSE "exit"]
    /\ UNCHANGED <<dataVars, cacheVars>>

\* after the loop: the warning when len(df) < limit, which formats symbol, a
\* name bound only inside the loop, and return df
BarsetReturn ==
    /\ barset.pc = "exit"
    /\ barset' = [barset EXCEPT
                    !.pc = "done",
                    !.result = IF barset.len_df < barset.limit /\ barset.calls = 0
                               THEN "UnboundLocalError" ELSE "df"]
    /\ UNCHANGED <<dataVars, cacheVars>>

NextAlpaca == BarsetEnter \/ BarsetCallApi \/ BarsetReturn

SpecAlpaca == InitAlpaca /\ [][NextAlpaca]_vars

----------------------------------------------------------------------------
(* Properties of Data.get_bars *)

Min(a, b) == IF a < b THEN a ELSE b

\* a get_bars call on a timestamp of the index has returned
BarsReturned ==
    /\ bars.op = "get_bars"
    /\ HasRow(data.df, bars.dt)
    /\ bars.raised = "none"

\* the timestamp of the row at 0-based offset r
RowTime(r) == data.df[r + 1]

\* C1: no lookahead.  With timeshift = 0, get_bars(ts, length) on a timestamp
\* of the index returns no row whose timestamp is greater than ts.
C1_NoLookahead ==
    (BarsReturned /\ bars.timeshift = 0) =>
        \A k \in 1..Len(bars.rows) : RowTime(bars.rows[k]) <= bars.dt

\* C1 witness: a window was returned for a timestamp that has later rows
\* in the series.
C1_Witness ==
    /\ BarsReturned
    /\ bars.timeshift = 0
    /\ Len(bars.rows) >= 2
    /\ get_iter_count(data.df, bars.dt) + 1 < Len(data.df)

\* C2: for every timeshift >= 0 the window lies in the past: every returned
\* row has offset <= index_of(ts) - timeshift, there are at most length rows,
\* and the window is empty when no such row exists.
C2_ShiftIntoPast ==
    BarsReturned =>
        LET last == get_iter_count(data.df, bars.dt) - bars.timeshift
        IN /\ \A k \in 1..Len(bars.rows) : bars.rows[k] <= last
           /\ Len(bars.rows) <= bars.length
           /\ (last < 0 => bars.rows = << >>)

\* C3: with timeshift = 0, get_bars(ts, length) raises nothing and returns
\* exactly min(length, index_of(ts) + 1) rows, contiguous and ending at the
\* row of ts; it is shorter than length only when fewer than length rows lie
\* at or before ts.
C3_ExactWindow ==
    (bars.op = "get_bars" /\ HasRow(data.df, bars.dt) /\ bars.timeshift = 0) =>
        LET idx == get_iter_count(data.df, bars.dt)
            n == Len(bars.rows)
        IN /\ bars.raised = "none"
           /\ n = Min(bars.length, idx + 1)
           /\ \A k \in 1..n : bars.rows[k] = idx - n + k
           /\ (n < bars.length => idx + 1 < bars.length)

\* C3 witness: a window clamped at the left edge of the series, shorter than
\* the length asked for.
C3_Witness ==
    /\ BarsReturned
    /\ bars.timeshift = 0
    /\ Len(bars.rows) >= 1
    /\ Len(bars.rows) < bars.length

----------------------------------------------------------------------------
(* Properties of the lookback cache *)

\* the required start time of the last request
RequiredStart(c) ==
    get_start_datetime_and_ts_unit(
        c.length, c.timestep,
        IF c.op = "get_last_price" THEN c.at ELSE NoStartDt,
        START_BUFFER, c.at).start_datetime

\* a step that makes a request (the requests leave the simulated time as it
\* is; the only other step, Tick, moves it)
IsRequest == now' = now

\* C4: idempotence.  A bar request repeated with the same key, length,
\* resolution and simulated time, the provider answering as before, triggers
\* at most one provider fetch over the two calls, whatever the provider
\* answered to the first.
C4_AtMostOneFetch ==
    (call.op = "get_bars" /\ call.same_as_prev) =>
        ~(call.prev_fetched /\ call.fetched)

\* C5: with no cache entry for the key, a bar request fetches (once), at the
\* requested resolution, from the required start time to the simulation end.
C5_MissFetchesOnce ==
    (call.op = "get_bars" /\ ~call.had_entry) =>
        /\ call.fetched
        /\ call.fetch = [start |-> RequiredStart(call), end |-> datetime_end,
                         timespan |-> call.timestep]

\* C5 witness: a bar request found no entry and the provider returned data.
C5_Witness ==
    /\ call.op = "get_bars"
    /\ ~call.had_entry
    /\ call.fetched
    /\ call.response.kind = "data"

\* ts1 is a coarser resolution than ts2
Coarser(ts1, ts2) == Duration(ts1) > Duration(ts2)

\* C6: a request at a resolution coarser than the cached one never fetches at
\* the requested resolution: it fetches nothing if (cache earliest timestamp
\* - required start) < buffer, and otherwise fetches at the cached resolution.
C6_CoarserRequest ==
    [][(/\ IsRequest
        /\ pandas_data[call'.key].present
        /\ Coarser(call'.timestep, pandas_data[call'.key].timestep))
       => LET entry == pandas_data[call'.key]
              near == entry.df[1] - RequiredStart(call') < START_BUFFER
          IN /\ call'.fetched <=> ~near
             /\ call'.fetched => call'.fetch.timespan = entry.timestep]_vars

\* C6 witness: a coarser request found a finer entry that does not reach back
\* far enough, and fetched at the finer resolution.
C6_Witness ==
    /\ call.op = "get_bars"
    /\ call.had_entry
    /\ call.fetched
    /\ Coarser(call.timestep, call.fetch.timespan)

\* C7: when the provider raises during a bar request, the caller gets the
\* wrapping error chained to the provider's (it is not swallowed), and the
\* cache is left as it was.
C7_ProviderErrorPropagates ==
    [][(IsRequest /\ call'.op = "get_bars" /\ call'.response.kind = "error")
       => /\ call'.raised = "Exception"
          /\ call'.cause = "ProviderError"
          /\ ~call'.super_called
          /\ pandas_data' = pandas_data]_vars

\* C7 witness: the provider raised on a bar request for a key that had an
\* entry.
C7_Witness ==
    /\ call.op = "get_bars"
    /\ call.had_entry
    /\ call.response.kind = "error"
    /\ call.raised = "Exception"

\* C8: get_last_price propagates no failure of its refresh: it still returns
\* the underlying last price, and the failed refresh leaves the cache as it
\* was.
C8_LastPriceSwallows ==
    [][(IsRequest /\ call'.op = "get_last_price"
        /\ call'.refresh_error # "none")
       => /\ call'.raised = "none"
          /\ call'.super_called
          /\ call'.result = "price"
          /\ pandas_data' = pandas_data]_vars

\* C8 witness: the refresh of a last-price request failed on the provider's
\* error and the underlying last price was still asked for.
C8_Witness ==
    /\ call.op = "get_last_price"
    /\ call.refresh_error = "Exception"
    /\ call.super_called

\* C9: when the provider returns None the request raises nothing and the
\* cache is unchanged: an entry stays as it is, an absent key stays absent.
C9_NoneLeavesCache ==
    [][(IsRequest /\ call'.response.kind = "None")
       => /\ call'.raised = "none"
          /\ pandas_data' = pandas_data]_vars

\* C9 witness: the provider returned None for a key that had an entry.
C9_Witness ==
    /\ call.response.kind = "None"
    /\ call.had_entry
    /\ pandas_data[call.key].present

\* the timestamps of a series
Rows(df) == {df[i] : i \in 1..Len(df)}

NamedPair(req) ==
    IF req.asset.tuple THEN <<req.asset.asset, req.asset.quote>>
    ELSE IF req.quote = "None" THEN <<req.asset.asset, "USD">>
    ELSE <<req.asset.asset, req.quote>>

----------------------------------------------------------------------------
(* Properties of the construction of Data *)

\* Data.__init__ has run: the object is built or the constructor has raised
Constructed == data.status # "new"

\* a bound was supplied and is not a datetime.datetime
NotADatetime(x) == x.kind \notin {"none", "datetime"}

\* C12: constructing a Data with a supplied date_start or date_end that is
\* not a full date-time fails with a TypeError, whatever the value; none is
\* accepted or taken as unspecified.
C12_NonDatetimeRejected ==
    (Constructed /\ (NotADatetime(arg_start) \/ NotADatetime(arg_end))) =>
        data.status = "TypeError"

\* date_start is a date-time later than the latest timestamp of a non-empty
\* input, and date_end is unspecified or a date-time
StartAfterInput ==
    /\ raw_df # << >>
    /\ arg_start.kind = "datetime"
    /\ arg_start.v > raw_df[Len(raw_df)]
    /\ arg_end.kind \in {"none", "datetime"}

\* C13: constructing a Data from a non-empty input with date_start later
\* than the latest index timestamp raises nothing and yields a series of
\* zero rows.
C13_StartAfterInputIsEmpty ==
    (Constructed /\ StartAfterInput) =>
        /\ data.status = "ok"
        /\ data.df = << >>

\* C13 witness: such a Data was constructed from an input of several rows.
C13_Witness ==
    /\ Constructed
    /\ StartAfterInput
    /\ Len(raw_df) >= 2
    /\ data.status = "ok"

(* Properties of queries at a timestamp the series does not hold *)
Queried == bars.op # "none"
NotInIndex == \A i \in 1..Len(data.df) : data.df[i] # bars.dt

\* C14: get_iter_count, get_last_price and get_bars at a timestamp that is
\* not exactly in the index raise KeyError and return no row: there is no
\* fallback to a neighbouring row.
C14_AbsentTimestampKeyError ==
    (Queried /\ NotInIndex) =>
        /\ bars.raised = "KeyError"
        /\ bars.rows = << >>

\* C14 witness: get_bars was asked at a timestamp that lies strictly
\* between two rows of the series, and raised.
C14_Witness ==
    /\ bars.op = "get_bars"
    /\ NotInIndex
    /\ \E i, j \in 1..Len(data.df) : data.df[i] < bars.dt /\ bars.dt < data.df[j]
    /\ bars.raised = "KeyError"

\* the entry the request of this step finds for its key
Held == pandas_data[call'.key]

\* (cache earliest timestamp - required start time) < buffer, for the
\* request of this step
ReachesBack == Held.df[1] - RequiredStart(call') < START_BUFFER

\* C15: a request that finds an entry at the resolution it asks for returns
\* without fetching if and only if (cache earliest timestamp - required
\* start time) < buffer, the required start time having the buffer
\* subtracted already; otherwise it fetches at that same resolution.
C15_SameResolution ==
    [][(IsRequest /\ Held.present /\ Held.timestep = call'.timestep)
       => /\ ~call'.fetched <=> ReachesBack
          /\ call'.fetched => call'.fetch.timespan = call'.timestep]_vars

\* C15 witness: a repeated request found an entry at its resolution that
\* did not reach back far enough, and fetched at that resolution again.
C15_Witness ==
    /\ call.op = "get_bars"
    /\ call.had_entry
    /\ call.fetched
    /\ call.fetch.timespan = call.timestep
    /\ call.prev_fetched
    /\ call.same_as_prev

\* C16: a request at a resolution finer than that of the entry held for its
\* key (minute over hour, minute over day, hour over day) always fetches, at
\* the requested resolution, however far back the entry reaches.
C16_FinerAlwaysFetches ==
    [][(IsRequest /\ Held.present /\ Coarser(Held.timestep, call'.timestep))
       => /\ call'.fetched
          /\ call'.fetch.timespan = call'.timestep]_vars

\* C16 witness: minute bars were asked of a key holding day bars; the
\* provider was asked for minute bars and answered None, so the day bars
\* are still held.
C16_Witness ==
    /\ call.op = "get_bars"
    /\ call.timestep = "minute"
    /\ call.had_entry
    /\ call.fetched
    /\ call.fetch.timespan = "minute"
    /\ call.response.kind = "None"
    /\ pandas_data[call.key].timestep = "day"

\* C17: whatever the requests (get_bars, get_last_price), their resolutions
\* and the provider's answers, a key that holds an entry keeps holding one,
\* and at no step does the resolution of its entry become coarser; so it is
\* never coarser than any resolution the key held earlier.
C17_NeverCoarser ==
    [][\A k \in Keys :
         pandas_data[k].present =>
            /\ pandas_data'[k].present
            /\ ~Coarser(pandas_data'[k].timestep, pandas_data[k].timestep)]_vars

\* C17 witness: a request at a coarser resolution than the one held was not
\* covered, data was fetched and stored, and the entry is at the finer
\* resolution still.
C17_Witness ==
    /\ call.had_entry
    /\ call.fetched
    /\ call.response.kind = "data"
    /\ call.timestep = "day"
    /\ pandas_data[call.key].present
    /\ pandas_data[call.key].timestep = "minute"
    /\ pandas_data[call.key].df = call.response.frame

SimTimes == {datetime_start + d * MinutesPerDay : d \in 0..MaxTicks}

\* whether the request (op, length, timestep), made at simulated time t of a
\* key holding entry, is judged sufficient
SufficientAt(entry, op, length, timestep, t) ==
    Sufficiency(entry, timestep,
                get_start_datetime_and_ts_unit(
                    length, timestep,
                    IF op = "get_last_price" THEN t ELSE NoStartDt,
                    START_BUFFER, t).start_datetime).skip

\* C19: sufficiency is stable as simulated time advances.  If the entry a
\* request finds for its key judges a request of the same length and
\* resolution sufficient at some simulated time t no later than now (the
\* entry has not been replaced since), the request is judged sufficient
\* and makes no fetch.
C19_SufficiencyStable ==
    [][(IsRequest /\ Held.present)
       => \A t \in SimTimes :
            (/\ t <= now
             /\ SufficientAt(Held, call'.op, call'.length, call'.timestep, t))
            => ~call'.fetched]_vars

\* C19 witness: a bar request made after the simulated time advanced found
\* an entry that judged it sufficient at the start of the backtest, and did
\* not fetch.
C19_Witness ==
    /\ call.op = "get_bars"
    /\ call.at > datetime_start
    /\ call.at = now
    /\ call.had_entry
    /\ ~call.fetched
    /\ SufficientAt(pandas_data[call.key], call.op, call.length,
                    call.timestep, datetime_start)

(* Properties of the trimmed store *)

\* C20: after construction every row of the store is a row of the input, has
\* a timestamp within [date_start, date_end] and has a time of day from the
\* time of day of date_start to the time of day of date_end.  (The position
\* index is built from the store's index and holds the same timestamps.)
C20_RowsWithinBounds ==
    data.status = "ok" =>
        \A i \in 1..Len(data.df) :
            /\ HasRow(raw_df, data.df[i])
            /\ data.date_start <= data.df[i]
            /\ data.df[i] <= data.date_end
            /\ TimeOfDay(data.date_start) <= TimeOfDay(data.df[i])
            /\ TimeOfDay(data.df[i]) <= TimeOfDay(data.date_end)

\* a Data was constructed from a non-empty input with neither bound given
DefaultBounds ==
    /\ Constructed
    /\ raw_df # << >>
    /\ arg_start = None
    /\ arg_end = None

\* C21: constructed from a non-empty, time-ordered input with neither
\* date_start nor date_end given, the bounds are the first and the last
\* timestamp of the input, and the first and the last input row are both in
\* the store: the time-of-day trim those defaults imply removes neither.
C21_DefaultBoundsKeepEnds ==
    DefaultBounds =>
        /\ data.status = "ok"
        /\ data.date_start = raw_df[1]
        /\ data.date_end = raw_df[Len(raw_df)]
        /\ data.df # << >>
        /\ data.df[1] = raw_df[1]
        /\ data.df[Len(data.df)] = raw_df[Len(raw_df)]

\* C21 witness: the input starts at a later time of day than it ends at, so
\* the time-of-day range of the defaults runs over midnight.
C21_Witness ==
    /\ DefaultBounds
    /\ Len(raw_df) >= 2
    /\ TimeOfDay(raw_df[1]) > TimeOfDay(raw_df[Len(raw_df)])
    /\ data.status = "ok"
    /\ Len(data.df) >= 2

(* Properties of AlpacaData.get_barset_from_api *)

\* the last API call returned at least limit rows, or an empty frame
EnoughOrEmpty ==
    /\ barset.calls >= 1
    /\ (barset.last_rows >= barset.limit \/ barset.last_rows = 0)

\* C22: for every limit >= 1 and freq 1Min or 1Day, start not given, the
\* widening loop gives up after at most 4 calls to the API, and makes no
\* further call once a call returned at least limit rows or an empty frame.
C22_GivesUpAfterFourCalls ==
    /\ barset.calls <= 4
    /\ EnoughOrEmpty => barset.pc \in {"exit", "done"}

====
